---- MODULE Spec2Model ----
(***************************************************************************)
(* Model of elanfp.py, the ELAN 04F3:0C4C match-on-chip fingerprint reader *)
(* driver: the command table, the status interpreter and the workflows     *)
(* (verify, enroll, finger info, delete) as one state machine.  A step of  *)
(* the machine is one bulk transfer together with the host code that runs  *)
(* up to the next transfer.  The device is the environment: it answers     *)
(* every bulk read with any of a small set of byte strings, or the         *)
(* transfer fails.                                                         *)
(*                                                                         *)
(* Byte strings are sequences of integers 0..255; Python index i is        *)
(* TLA+ index i + 1.                                                       *)
(***************************************************************************)
EXTENDS Integers, Sequences, FiniteSets, TLC

\* ---------------------------------------------------------------- bounds

\* The device gives at most this many answers that make a workflow loop
\* again (a hint, an angry sensor, a failed sample) in a counted run.
MaxRetries == 2

\* The longest user data string tried by enroll.
MaxUserLen == 70

\* The largest <id> argument tried by finger_info and delete.
MaxArgId == 9

\* ------------------------------------------------------- program constants

\* range(10) of finger_info_all and delete_all
NumSlots == 10

\* total_attempts of enroll
total_attempts == 8

\* the width of the ljust() that pads the commit and delete payloads
PayloadWidth == 69

\* the "not enrolled" status the pre-check of enroll waits for
NotEnrolled == 253

\* the "maximum number of fingers" status that ends enroll
MaxFingers == 221

\* byte 1 of a finger_info answer of an angry sensor; last byte of the
\* record of a slot that is not enrolled
Sentinel == 255

\* minv = 2<<16-1, the start of the minimum of capture
MinvStart == 65536

\* ------------------------------------------------------------ byte helpers

RECURSIVE BitAnd(_, _)
BitAnd(a, b) ==
    IF a = 0 \/ b = 0 THEN 0
    ELSE (a % 2) * (b % 2) + 2 * BitAnd(a \div 2, b \div 2)

RECURSIVE BitOr(_, _)
BitOr(a, b) ==
    IF a = 0 THEN b
    ELSE IF b = 0 THEN a
    ELSE (IF a % 2 = 1 \/ b % 2 = 1 THEN 1 ELSE 0) + 2 * BitOr(a \div 2, b \div 2)

\* bytes.ljust(width, fill): pads on the right, never shortens
ljust(s, width, fill) ==
    IF Len(s) >= width THEN s
    ELSE s \o [i \in 1..(width - Len(s)) |-> fill]

\* resp[2:]
From2(r) == SubSeq(r, 3, Len(r))

\* resp[-1]
Last(r) == r[Len(r)]

\* n bytes of value b
Fill(n, b) == [i \in 1..n |-> b]

\* ----------------------------------------------------------- command table

Command(command, out_len, in_len, ep_out, ep_in) ==
    [command |-> command, out_len |-> out_len, in_len |-> in_len,
     ep_out |-> ep_out, ep_in |-> ep_in]

COMMANDS ==
    [c \in {"fw_ver", "sensor_size", "verify", "finger_info", "enrolled_num",
            "enrolled_num1", "abort", "commit", "enroll", "after_enroll",
            "delete"} |->
        CASE c = "fw_ver"        -> Command(<<64, 25>>, 2, 2, 1, 3)
          [] c = "sensor_size"   -> Command(<<0, 12>>, 2, 4, 1, 3)
          [] c = "verify"        -> Command(<<64, 255, 3>>, 3, 2, 1, 4)
          [] c = "finger_info"   -> Command(<<64, 255, 18>>, 4, 64, 1, 3)
          [] c = "enrolled_num"  -> Command(<<64, 255, 4>>, 3, 2, 1, 3)
          [] c = "enrolled_num1" -> Command(<<64, 255, 0>>, 3, 2, 1, 3)
          [] c = "abort"         -> Command(<<64, 255, 2>>, 3, 2, 1, 3)
          [] c = "commit"        -> Command(<<64, 255, 17>>, 72, 2, 1, 3)
          [] c = "enroll"        -> Command(<<64, 255, 1>>, 7, 2, 1, 4)
          [] c = "after_enroll"  -> Command(<<64, 255, 16>>, 3, 3, 1, 3)
          [] c = "delete"        -> Command(<<64, 255, 19>>, 72, 2, 1, 3)]

CommandNames == DOMAIN COMMANDS

\* ------------------------------------------------------ status interpreter

ERRORS ==
    [b \in {65, 66, 67, 68, 251, 253, 254, 221} |->
        CASE b = 65  -> "Move slightly downwards"
          [] b = 66  -> "Move slightly to the right"
          [] b = 67  -> "Move slightly upwards"
          [] b = 68  -> "Move slightly to the left"
          [] b = 251 -> "Sensor is dirty or wet"
          [] b = 253 -> "Finger not enrolled"
          [] b = 254 -> "Finger area not enough"
          [] b = 221 -> "Maximum number of enrolled fingers reached"]

\* Python's None
None == <<>>

\* A description is the one-element tuple of its text; the text of an
\* unknown code carries the code.
Unknown(byte) == <<"Unknown error", byte>>

\* get_error testing only the top bit of the byte
get_error_topbit(byte) ==
    IF BitAnd(byte, 128) = 0 THEN None
    ELSE IF byte \notin DOMAIN ERRORS THEN Unknown(byte)
    ELSE <<ERRORS[byte]>>

\* get_error testing the whole byte instead of its high nibble
get_error_zero(byte) ==
    IF byte = 0 THEN None
    ELSE IF byte \notin DOMAIN ERRORS THEN Unknown(byte)
    ELSE <<ERRORS[byte]>>

get_error(byte) ==
    IF BitAnd(byte, 240) = 0 THEN None
    ELSE IF byte \notin DOMAIN ERRORS THEN Unknown(byte)
    ELSE <<ERRORS[byte]>>

\* ------------------------------------------------------------------ state

VARIABLES
    args,           \* docopt's result: [cmd, id, user, ep, hex] (user encoded)
    track,          \* whether this run keeps the history counters of hist
    pc,             \* the command() call the program is at, or main/except/done
    io,             \* "idle": before the bulkWrite of that call; "written": after
    stack,          \* call sites of the active calls, innermost first
    payload,        \* the payload argument of the command() call at pc
    resp,           \* the last answer read
    error,          \* the local `error`: the last result of get_error
    new_finger_id,  \* enroll's new_finger_id
    attempts_done,  \* enroll's attempts_done
    finger_id,      \* main's finger_id, passed down as finger_id / fpid
    ret,            \* the value the last verify() returned, -1 before
    exc,            \* the exception raised, [type, arg]
    frame,          \* the last frame written: [cmd, ep, bytes]
    warnings,       \* the warnings.warn calls made, as <<direction, command>>
    cap,            \* capture's locals and the image saved (see cap0)
    hist            \* history counters (see hist0)

vars == <<args, track, pc, io, stack, payload, resp, error, new_finger_id,
          attempts_done, finger_id, ret, exc, frame, warnings, cap, hist>>

\* History: frames written and answers read per command, answers that made
\* a workflow loop again, enroll answers with status 0, verify() calls
\* returned, finger_info answers of an angry sensor, and whether every
\* finger_info answer so far was the full record of a slot not enrolled;
\* the last bulkRead of command() and byte 1 of the enrolled_num answer.
hist0 ==
    [sent |-> [c \in CommandNames |-> 0],
     answers |-> [c \in CommandNames |-> 0],
     retries |-> 0,
     ok |-> 0,
     rounds |-> 0,
     angry |-> 0,
     empty |-> TRUE,
     read |-> [ep |-> 0, n |-> 0, bytes |-> <<>>],
     enrolled |-> -1]

\* The counters a loop of the program can raise without bound are kept in
\* counted runs only; the other fields are kept in every run.
Log(h) ==
    IF track THEN h
    ELSE [hist EXCEPT !.ok = h.ok, !.empty = h.empty, !.read = h.read,
                      !.enrolled = h.enrolled]

\* The device may answer so that the workflow loops again.
CanLoop == track => hist.retries < MaxRetries

NoExc == [type |-> "none", arg |-> None]

Exc(type, arg) == [type |-> type, arg |-> arg]

\* --------------------------------------------------------------- the inputs

ArgIds == {0, 5, MaxArgId}

UserLens == {0, 5, PayloadWidth - 1, PayloadWidth, MaxUserLen}

\* Pixel values of a captured image, and the size answers of the sensor
\* (width - 1, 0, height - 1, 0).
SampleValues == {0, 2, 500, 1000}

SizeAnswers == {<<2, 0, 0, 0>>, <<1, 0, 1, 0>>}

Args(cmd, id, user) ==
    [cmd |-> cmd, id |-> id, user |-> user, ep |-> 0, hex |-> <<>>]

\* raw (-e EP) <hex>...
RawArgs(ep, hex) ==
    [cmd |-> "raw", id |-> 0, user |-> <<>>, ep |-> ep, hex |-> hex]

ArgSet ==
    {Args(c, 0, <<>>) : c \in {"reset", "verify", "fw_ver", "finger_info_all",
                               "enrolled_count", "delete_all", "capture"}}
    \cup {RawArgs(3, <<64, 25>>)}
    \cup {Args(c, i, <<>>) : c \in {"finger_info", "delete"}, i \in ArgIds}
    \cup {Args("enroll", 0, Fill(n, 65)) : n \in UserLens}

\* Status bytes the device answers each command with: success, ids with a
\* zero high nibble, a hint, an unknown code, and the codes the workflows
\* test for.
StatusBytes(cmd) ==
    CASE cmd = "verify" -> {0, 7, 15, 68, NotEnrolled}
      [] cmd = "enroll" -> {0, 7, 80, MaxFingers}
      [] cmd = "enrolled_num" -> {0, 7, 15, NotEnrolled}
      [] cmd = "delete" -> {0, NotEnrolled}
      [] cmd = "commit" -> {0, Sentinel}
      [] OTHER -> {1}

\* A finger_info answer of full length.
Record(b1, fill, last) ==
    [i \in 1..COMMANDS["finger_info"].in_len |->
        IF i = 1 THEN 64 ELSE IF i = 2 THEN b1
        ELSE IF i = COMMANDS["finger_info"].in_len THEN last ELSE fill]

\* The answers of the device: an answer cut short, an angry sensor, a short
\* error answer, a three-byte answer, the record of an enrolled finger and
\* the record of a slot not enrolled for finger_info; the status answers
\* for the other commands.
Answers(cmd) ==
    CASE cmd = "finger_info" ->
            {<<64>>, <<64, Sentinel>>, <<64, NotEnrolled>>, <<64, 0, Sentinel>>,
             Record(0, 17, 34), Record(NotEnrolled, 0, Sentinel)}
      [] cmd = "after_enroll" -> {<<64, 0, 0>>, <<64, 1>>}
      [] cmd = "sensor_size" -> SizeAnswers \cup {<<1, 0>>}
      [] OTHER -> {<<64>>} \cup {<<64, s>> : s \in StatusBytes(cmd)}

\* --------------------------------------------------- transfers of control

\* Where the program goes next: the command() call it reaches (or done, or
\* the except clause of main), the calls then active, and the locals set on
\* the way.
Ctl(p, stk, fid, pl) ==
    [pc |-> p, stack |-> stk, finger_id |-> fid, payload |-> pl, exc |-> NoExc]

\* An exception unwinds every call up to the try of main.
Throw(type, arg) ==
    [pc |-> "except", stack |-> <<>>, finger_id |-> finger_id,
     payload |-> payload, exc |-> Exc(type, arg)]

\* The selected branch of main ends without an exception.
Done(fid) == Ctl("done", <<>>, fid, payload)

Jump(c) ==
    /\ pc' = c.pc
    /\ stack' = c.stack
    /\ finger_id' = c.finger_id
    /\ payload' = c.payload
    /\ exc' = c.exc
    /\ io' = "idle"

\* get_finger_info(handle, fid) is entered from `site`: the loop starts with
\* the finger_info command, whose payload is fid.to_bytes(1, "little").
CallFingerInfo(site, stk, fid) ==
    IF fid \in 0..255
    THEN Ctl("finger_info", <<site>> \o stk, fid, <<fid>>)
    ELSE Throw("OverflowError", None)

CallVerify(site, stk, fid) == Ctl("verify", <<site>> \o stk, fid, <<>>)

\* The payload of delete_by_id and of the delete_all branch of main.
DeletePayload(fpid, r) ==
    ljust(<<BitOr(240, fpid + 5)>> \o From2(r), PayloadWidth, 0)

CallDelete(site, stk, fid, r) ==
    IF BitOr(240, fid + 5) \in 0..255
    THEN Ctl("delete", <<site>> \o stk, fid, DeletePayload(fid, r))
    ELSE Throw("struct.error", None)

\* The next turn of `for finger_id in range(10)` of finger_info_all.
NextInfoAll(fid) ==
    IF fid + 1 < NumSlots
    THEN CallFingerInfo("main.finger_info_all", <<>>, fid + 1)
    ELSE Done(fid)

\* delete_all stopping one slot early
NextDeleteAll_short(fid) ==
    IF fid + 1 < NumSlots - 1
    THEN CallFingerInfo("main.delete_all.info", <<>>, fid + 1)
    ELSE Done(fid)

\* The next turn of `for finger_id in range(10)` of delete_all.
NextDeleteAll(fid) ==
    IF fid + 1 < NumSlots
    THEN CallFingerInfo("main.delete_all.info", <<>>, fid + 1)
    ELSE Done(fid)

\* delete() returns; stk has its call site on top.
ReturnFromDelete(stk, fid) ==
    IF Head(stk) = "delete_by_id.delete" THEN Done(fid) ELSE NextDeleteAll(fid)

\* delete_all testing byte 1 instead of the last byte
SlotUnenrolled_byte1(r) == r[2] = Sentinel

\* delete_all: `if resp[-1] == 0xff`, the slot is not enrolled.
SlotUnenrolled(r) == Last(r) = Sentinel

\* get_finger_info() returns r; stk has its call site on top.
ReturnFromInfo(stk, fid, r) ==
    CASE Head(stk) = "main.finger_info" -> Done(fid)
      [] Head(stk) = "main.finger_info_all" -> NextInfoAll(fid)
      [] Head(stk) = "delete_by_id.info" ->
            CallDelete("delete_by_id.delete", Tail(stk), fid, r)
      [] Head(stk) = "main.delete_all.info" ->
            IF SlotUnenrolled(r)
            THEN NextDeleteAll(fid)
            ELSE CallDelete("main.delete_all.delete", Tail(stk), fid, r)
      [] Head(stk) = "delete.info" -> ReturnFromDelete(Tail(stk), fid)

\* verify() returns; stk has its call site on top.
ReturnFromVerify(stk, fid) ==
    IF Head(stk) = "main.verify"
    THEN Done(fid)
    ELSE Ctl("finger_info", Tail(stk), fid, <<fid>>)

\* ---------------------------------------------------------------- command()

Sites == {"fw_ver", "enrolled_count", "verify", "finger_info", "delete",
          "enrolled_num", "precheck", "sample", "after_enroll", "commit",
          "sensor_size"}

\* The bulk transfers main makes itself, without command().
DirectSites == {"raw", "capture"}

\* The command name passed to command() at each call.
CmdAt(p) ==
    CASE p = "precheck" -> "verify"
      [] p = "sample" -> "enroll"
      [] p = "enrolled_count" -> "enrolled_num"
      [] OTHER -> p

\* capture's locals: width, height, the buffer read, minv, maxv, the
\* values put into img_8b by position <<x, y>>, and whether img_8b was
\* saved.
cap0 ==
    [width |-> 0, height |-> 0, img |-> <<>>, minv |-> 0, maxv |-> 0,
     img_8b |-> <<>>, saved |-> FALSE]

Start(t) ==
    /\ args \in ArgSet
    /\ track = t
    /\ pc = "main"
    /\ io = "idle"
    /\ stack = <<>>
    /\ payload = <<>>
    /\ resp = <<>>
    /\ error = None
    /\ new_finger_id = -1
    /\ attempts_done = 0
    /\ finger_id = -1
    /\ ret = -1
    /\ exc = NoExc
    /\ frame = [cmd |-> "none", ep |-> 0, bytes |-> <<>>]
    /\ warnings = {}
    /\ cap = cap0
    /\ hist = hist0

Init == Start(TRUE)

\* main: the branch docopt's result selects, up to its first bulk transfer.
Dispatch(a) ==
    CASE a.cmd = "reset" -> Ctl("reset", <<>>, finger_id, <<>>)
      [] a.cmd = "verify" -> CallVerify("main.verify", <<>>, finger_id)
      [] a.cmd = "fw_ver" -> Ctl("fw_ver", <<>>, finger_id, <<>>)
      [] a.cmd = "finger_info" -> CallFingerInfo("main.finger_info", <<>>, a.id)
      [] a.cmd = "finger_info_all" ->
            CallFingerInfo("main.finger_info_all", <<>>, 0)
      [] a.cmd = "enrolled_count" -> Ctl("enrolled_count", <<>>, finger_id, <<>>)
      [] a.cmd = "enroll" -> Ctl("enrolled_num", <<"main.enroll">>, finger_id, <<>>)
      [] a.cmd = "delete" ->
            CallFingerInfo("delete_by_id.info", <<"main.delete">>, a.id)
      [] a.cmd = "delete_all" -> CallFingerInfo("main.delete_all.info", <<>>, 0)
      [] a.cmd = "raw" -> Ctl("raw", <<>>, finger_id, a.hex)
      [] a.cmd = "capture" -> Ctl("sensor_size", <<>>, finger_id, <<>>)

Main ==
    /\ pc = "main"
    /\ Jump(Dispatch(args))
    /\ UNCHANGED <<cap, args, track, resp, error, new_finger_id, attempts_done, ret,
                   frame, warnings, hist>>

\* the frame cut or padded to the table's length
CmdBytes_fixed(c, pl) ==
    SubSeq(ljust(c.command \o pl, c.out_len, 0), 1, c.out_len)

\* cmd = outpayload + payload
CmdBytes(c, pl) == c.command \o pl

\* usb.bulkRead(ep_in, inlen, timeout) returning r
BulkRead(c, r) == [ep |-> c.ep_in, n |-> c.in_len, bytes |-> r]

\* command(): cmd = outpayload + payload, the length warning, bulkWrite.
BulkWrite ==
    /\ pc \in Sites
    /\ io = "idle"
    /\ LET name == CmdAt(pc)
           c == COMMANDS[name]
           cmd == CmdBytes(c, payload)
       IN /\ frame' = [cmd |-> name, ep |-> c.ep_out, bytes |-> cmd]
          /\ warnings' = IF Len(cmd) # c.out_len
                         THEN warnings \cup {<<"out", name>>}
                         ELSE warnings
          /\ hist' = Log([hist EXCEPT !.sent[name] = @ + 1])
    /\ io' = "written"
    /\ UNCHANGED <<cap, args, track, pc, stack, payload, resp, error, new_finger_id,
                   attempts_done, finger_id, ret, exc>>

\* bulkWrite, of command() or of main, raises.
BulkWriteFails ==
    /\ pc \in Sites \cup DirectSites
    /\ io = "idle"
    /\ Jump(Throw("USBError", None))
    /\ UNCHANGED <<cap, args, track, resp, error, new_finger_id, attempts_done, ret,
                   frame, warnings, hist>>

\* bulkRead, of command() or of main, raises.
BulkReadFails ==
    /\ pc \in Sites \cup DirectSites
    /\ io = "written"
    /\ Jump(Throw("USBError", None))
    /\ UNCHANGED <<cap, args, track, resp, error, new_finger_id, attempts_done, ret,
                   frame, warnings, hist>>

\* The full record of a slot that is not enrolled, as delete_all reads it.
UnenrolledRecord(r) == Len(r) > 2 /\ r[2] # Sentinel /\ Last(r) = Sentinel

\* What the history records of an answer r to command name.
Observe(h, name, r) ==
    [h EXCEPT !.answers[name] = @ + 1,
              !.ok = IF name = "enroll" /\ Len(r) >= 2 /\ r[2] = 0
                     THEN @ + 1 ELSE @,
              !.angry = IF name = "finger_info" /\ Len(r) >= 2 /\ r[2] = Sentinel
                        THEN @ + 1 ELSE @,
              !.empty = @ /\ (name = "finger_info" => UnenrolledRecord(r)),
              !.enrolled = IF name = "enrolled_num" /\ Len(r) >= 2
                           THEN r[2] ELSE @]

\* command(): bulkRead answers r at the call at p, the length warning, and
\* return resp; h is hist as the code after the call changes it.
Receive(p, r, h) ==
    /\ pc = p
    /\ io = "written"
    /\ r \in Answers(CmdAt(p))
    /\ resp' = r
    /\ warnings' = IF Len(r) < COMMANDS[CmdAt(p)].in_len
                   THEN warnings \cup {<<"in", CmdAt(p)>>}
                   ELSE warnings
    /\ hist' = Log([Observe(h, CmdAt(p), r) EXCEPT
                        !.read = BulkRead(COMMANDS[CmdAt(p)], r)])

\* the except clause writing abort and swallowing the exception
Abort_swallow ==
    /\ pc = "except"
    /\ frame' = [cmd |-> "abort", ep |-> 1, bytes |-> COMMANDS["abort"].command]
    /\ hist' = Log([hist EXCEPT !.sent["abort"] = @ + 1])
    /\ pc' = "done"
    /\ exc' = NoExc
    /\ UNCHANGED <<cap, args, track, io, stack, payload, resp, error,
                   new_finger_id, attempts_done, finger_id, ret, warnings>>

\* main's except clause: the abort opcode is written to endpoint 1 and the
\* exception is raised again.
Abort ==
    /\ pc = "except"
    /\ frame' = [cmd |-> "abort", ep |-> 1, bytes |-> COMMANDS["abort"].command]
    /\ hist' = Log([hist EXCEPT !.sent["abort"] = @ + 1])
    /\ pc' = "done"
    /\ UNCHANGED <<cap, args, track, io, stack, payload, resp, error, new_finger_id,
                   attempts_done, finger_id, ret, exc, warnings>>

\* The bulkWrite of the except clause raises itself.
AbortFails ==
    /\ pc = "except"
    /\ exc' = Exc("USBError", None)
    /\ pc' = "done"
    /\ UNCHANGED <<cap, args, track, io, stack, payload, resp, error, new_finger_id,
                   attempts_done, finger_id, ret, frame, warnings, hist>>

\* resp[1] of an answer shorter than two bytes raises IndexError.
IndexError(p, r) ==
    /\ Receive(p, r, hist)
    /\ Jump(Throw("IndexError", None))
    /\ UNCHANGED <<cap, args, track, error, new_finger_id, attempts_done, ret, frame>>

Looped == [hist EXCEPT !.retries = @ + 1]

\* ------------------------------------------------------------------ verify()

\* `if error:` print(error); continue
VerifyLoops(e) == e # None

\* verify returning byte 0 of the answer
VerifyResult_byte0(r) == r[1]

\* return resp[1]
VerifyResult(r) == r[2]

VerifyRead(r) ==
    IF Len(r) < 2 THEN IndexError("verify", r)
    ELSE LET e == get_error(r[2]) IN
        IF VerifyLoops(e)
        THEN /\ CanLoop
             /\ Receive("verify", r, Looped)
             /\ error' = e
             /\ Jump(Ctl("verify", stack, finger_id, <<>>))
             /\ UNCHANGED <<cap, args, track, new_finger_id, attempts_done, ret, frame>>
        ELSE /\ Receive("verify", r, [hist EXCEPT !.rounds = @ + 1])
             /\ error' = e
             /\ ret' = VerifyResult(r)
             /\ Jump(ReturnFromVerify(stack, finger_id))
             /\ UNCHANGED <<cap, args, track, new_finger_id, attempts_done, frame>>

\* ------------------------------------------------------------------ enroll()

\* struct.pack("BBBB", new_finger_id, total_attempts, attempts_done, 0)
EnrollPayload(id, done) == <<id, total_attempts, done, 0>>

\* (struct.pack("B", 0xf0 | (new_finger_id + 5)) + user_data).ljust(69, b"\x00")
CommitPayload(id, user_data) ==
    ljust(<<BitOr(240, id + 5)>> \o user_data, PayloadWidth, 0)

\* the loop test off by one
SampleLoopTest_inclusive(done) == done <= total_attempts

\* `while attempts_done < total_attempts`
SampleLoopTest(done) == done < total_attempts

\* The sampling loop is entered or continued with `done` samples taken:
\* the next enroll command, or after_enroll once the loop test fails.
SampleLoop(done) ==
    IF SampleLoopTest(done)
    THEN Ctl("sample", stack, finger_id, EnrollPayload(new_finger_id, done))
    ELSE Ctl("after_enroll", stack, finger_id, <<>>)

\* the number of enrolled fingers plus one taken as the new id
NewFingerId_next(r) == r[2] + 1

\* new_finger_id = resp[1]
NewFingerId(r) == r[2]

EnrolledNumRead(r) ==
    IF Len(r) < 2 THEN IndexError("enrolled_num", r)
    ELSE LET e == get_error(r[2]) IN
        /\ Receive("enrolled_num", r, hist)
        /\ error' = e
        /\ IF e # None
           THEN \* Failed to retrieve currently enrolled fingers: return
                /\ Jump(Done(finger_id))
                /\ UNCHANGED new_finger_id
           ELSE /\ new_finger_id' = NewFingerId(r)
                /\ Jump(Ctl("precheck", stack, finger_id, <<>>))
        /\ UNCHANGED <<cap, args, track, attempts_done, ret, frame>>

\* the pre-check leaving its loop on any error
PreCheckOutcome_any(r, e) == IF e = None THEN "continue" ELSE "break"

\* The pre-check loop: "continue" when the finger is already enrolled or the
\* status is another error than 0xfd, "break" on 0xfd.
PreCheckOutcome(r, e) ==
    IF e = None THEN "continue"
    ELSE IF r[2] # NotEnrolled THEN "continue"
    ELSE "break"

PreCheckRead(r) ==
    IF Len(r) < 2 THEN IndexError("precheck", r)
    ELSE LET e == get_error(r[2]) IN
        IF PreCheckOutcome(r, e) = "continue"
        THEN /\ CanLoop
             /\ Receive("precheck", r, Looped)
             /\ error' = e
             /\ Jump(Ctl("precheck", stack, finger_id, <<>>))
             /\ UNCHANGED <<cap, args, track, new_finger_id, attempts_done, ret, frame>>
        ELSE \* Proceeding: attempts_done = 0 and the first loop test
             /\ Receive("precheck", r, hist)
             /\ error' = e
             /\ attempts_done' = 0
             /\ Jump(SampleLoop(0))
             /\ UNCHANGED <<cap, args, track, new_finger_id, ret, frame>>

\* the sampling loop testing `error` instead of the status
SampleOutcome_error(r) ==
    IF get_error(r[2]) # None
    THEN IF r[2] = MaxFingers THEN "return" ELSE "continue"
    ELSE "next"

\* the sampling loop without its return on 0xdd
SampleOutcome_noreturn(r) == IF r[2] # 0 THEN "continue" ELSE "next"

\* The body of the sampling loop after the enroll answer: "return" on
\* 0xdd, "continue" on another non-zero status, "next" on status 0.
SampleOutcome(r) ==
    IF r[2] # 0
    THEN IF r[2] = MaxFingers THEN "return" ELSE "continue"
    ELSE "next"

SampleRead(r) ==
    IF Len(r) < 2 THEN IndexError("sample", r)
    ELSE LET e == get_error(r[2])
             o == SampleOutcome(r) IN
        IF o = "return"
        THEN /\ Receive("sample", r, hist)
             /\ error' = e
             /\ Jump(Done(finger_id))
             /\ UNCHANGED <<cap, args, track, new_finger_id, attempts_done, ret, frame>>
        ELSE IF o = "continue"
        THEN /\ CanLoop
             /\ Receive("sample", r, Looped)
             /\ error' = e
             /\ Jump(SampleLoop(attempts_done))
             /\ UNCHANGED <<cap, args, track, new_finger_id, attempts_done, ret, frame>>
        ELSE \* attempts_done += 1
             /\ Receive("sample", r, hist)
             /\ error' = e
             /\ attempts_done' = attempts_done + 1
             /\ Jump(SampleLoop(attempts_done + 1))
             /\ UNCHANGED <<cap, args, track, new_finger_id, ret, frame>>

\* after_enroll's answer is only printed; the commit payload is built.
AfterEnrollRead(r) ==
    /\ Receive("after_enroll", r, hist)
    /\ Jump(Ctl("commit", stack, finger_id,
                CommitPayload(new_finger_id, args.user)))
    /\ UNCHANGED <<cap, args, track, error, new_finger_id, attempts_done, ret, frame>>

\* Enroll successful, or Sensor is angry: enroll returns either way.
CommitRead(r) ==
    IF Len(r) < 2 THEN IndexError("commit", r)
    ELSE /\ Receive("commit", r, hist)
         /\ Jump(Done(finger_id))
         /\ UNCHANGED <<cap, args, track, error, new_finger_id, attempts_done, ret,
                        frame>>

\* --------------------------------------------------------- get_finger_info()

\* `if resp[1] == 0xff`
IsAngry(r) == r[2] = Sentinel

\* the angry sensor asked again without the verify round
AngryRecovery_skip(stk, fid) == Ctl("finger_info", stk, fid, <<fid>>)

\* Sensor is angry: verify(handle), then `continue`
AngryRecovery(stk, fid) == CallVerify("get_finger_info.verify", stk, fid)

\* the short-form test taking three-byte answers too
IsShortForm_upto3(r) == Len(r) <= 3

\* the short-form test missing two-byte answers
IsShortForm_less(r) == Len(r) < 2

\* `if len(resp) == 2`
IsShortForm(r) == Len(r) = 2

FingerInfoRead(r) ==
    IF Len(r) < 2 THEN IndexError("finger_info", r)
    ELSE IF IsAngry(r)
    THEN /\ CanLoop
         /\ Receive("finger_info", r, Looped)
         /\ Jump(AngryRecovery(stack, finger_id))
         /\ UNCHANGED <<cap, args, track, error, new_finger_id, attempts_done, ret,
                        frame>>
    ELSE IF IsShortForm(r)
    THEN \* raise IOError(f"Error: {get_error(resp[1])}")
         /\ Receive("finger_info", r, hist)
         /\ Jump(Throw("IOError", get_error(r[2])))
         /\ UNCHANGED <<cap, args, track, error, new_finger_id, attempts_done, ret,
                        frame>>
    ELSE \* return resp
         /\ Receive("finger_info", r, hist)
         /\ Jump(ReturnFromInfo(stack, finger_id, r))
         /\ UNCHANGED <<cap, args, track, error, new_finger_id, attempts_done, ret,
                        frame>>

\* ------------------------------------------------------------------ delete()

\* delete testing its status the wrong way round
DeleteFailed_inverted(r) == r[2] = 0

\* `if resp[1] != 0`: the error is printed and delete() returns
DeleteFailed(r) == r[2] # 0

DeleteRead(r) ==
    IF Len(r) < 2 THEN IndexError("delete", r)
    ELSE /\ Receive("delete", r, hist)
         /\ error' = get_error(r[2])
         /\ Jump(IF DeleteFailed(r)
                 THEN ReturnFromDelete(stack, finger_id)
                 ELSE CallFingerInfo("delete.info", stack, finger_id))
         /\ UNCHANGED <<cap, args, track, new_finger_id, attempts_done, ret, frame>>

\* -------------------------------------------- fw_ver, enrolled_count of main

\* print(f"Version: {resp[0]}.{resp[1]}")
FwVerRead(r) ==
    IF Len(r) < 2 THEN IndexError("fw_ver", r)
    ELSE /\ Receive("fw_ver", r, hist)
         /\ Jump(Done(finger_id))
         /\ UNCHANGED <<cap, args, track, error, new_finger_id, attempts_done, ret,
                        frame>>

\* print(f"Enrolled fingers: {resp[1]}")
EnrolledCountRead(r) ==
    IF Len(r) < 2 THEN IndexError("enrolled_count", r)
    ELSE /\ Receive("enrolled_count", r, hist)
         /\ Jump(Done(finger_id))
         /\ UNCHANGED <<cap, args, track, error, new_finger_id, attempts_done, ret,
                        frame>>

\* ------------------------------------------------------- reset, raw of main

\* handle.resetDevice()
Reset ==
    /\ pc = "reset"
    /\ Jump(Done(finger_id))
    /\ UNCHANGED <<cap, args, track, resp, error, new_finger_id, attempts_done, ret,
                   frame, warnings, hist>>

ResetFails ==
    /\ pc = "reset"
    /\ Jump(Throw("USBError", None))
    /\ UNCHANGED <<cap, args, track, resp, error, new_finger_id, attempts_done, ret,
                   frame, warnings, hist>>

\* handle.bulkWrite(1, payload, timeout=5000)
RawWrite ==
    /\ pc = "raw"
    /\ io = "idle"
    /\ frame' = [cmd |-> "raw", ep |-> 1, bytes |-> payload]
    /\ io' = "written"
    /\ UNCHANGED <<cap, args, track, pc, stack, payload, resp, error,
                   new_finger_id, attempts_done, finger_id, ret, exc, warnings,
                   hist>>

\* What the device answers a raw command with.
RawAnswers == {<<>>, <<64, 25>>}

\* resp = handle.bulkRead(ep, 1000, timeout=5000), printed
RawRead(r) ==
    /\ pc = "raw"
    /\ io = "written"
    /\ resp' = r
    /\ Jump(Done(finger_id))
    /\ UNCHANGED <<cap, args, track, error, new_finger_id, attempts_done, ret,
                   frame, warnings, hist>>

\* ---------------------------------------------------------- capture of main

\* The bytes of an image with pixel values s, 16 bits little-endian each.
Encode(s) ==
    [i \in 1..(2 * Len(s)) |->
        IF i % 2 = 1 THEN s[(i + 1) \div 2] % 256 ELSE s[i \div 2] \div 256]

\* What bulkRead of the image returns: an image of the size asked for, or
\* a transfer cut short.
Buffers(width, height) ==
    {Encode(s) : s \in [1..(width * height) -> SampleValues]} \cup {<<0>>}

\* img.getpixel((x, y)) of Image.frombuffer("I;16L", (width, height), img)
getpixel(img, width, x, y) ==
    LET i == 2 * (y * width + x) IN img[i + 1] + 256 * img[i + 2]

\* The positions the loops over range(height) and range(width) visit.
Positions(width, height) == (0..(width - 1)) \X (0..(height - 1))

SetMin(S) == CHOOSE m \in S : \A n \in S : m <= n

SetMax(S) == CHOOSE m \in S : \A n \in S : m >= n

\* int((v - minv) * 256 / diff), the value passed to putpixel
pixel8(v, minv, diff) == ((v - minv) * 256) \div diff

\* width = resp[0] + 1, height = resp[2] + 1
SensorSizeRead(r) ==
    IF Len(r) < 3 THEN IndexError("sensor_size", r)
    ELSE /\ Receive("sensor_size", r, hist)
         /\ cap' = [cap EXCEPT !.width = r[1] + 1, !.height = r[3] + 1]
         /\ Jump(Ctl("capture", stack, finger_id, <<0, 9>>))
         /\ UNCHANGED <<args, track, error, new_finger_id, attempts_done, ret,
                        frame>>

\* handle.bulkWrite(1, bytes([0x00, 0x09]), timeout=5000)
CaptureWrite ==
    /\ pc = "capture"
    /\ io = "idle"
    /\ frame' = [cmd |-> "capture", ep |-> 1, bytes |-> payload]
    /\ io' = "written"
    /\ UNCHANGED <<cap, args, track, pc, stack, payload, resp, error,
                   new_finger_id, attempts_done, finger_id, ret, exc, warnings,
                   hist>>

\* bulkRead of the image, the minimum and maximum, the conversion to 8 bit
\* and the save.  A buffer too short makes Image.frombuffer raise; a flat
\* image makes the division of the first pixel raise.
CaptureRead(buf) ==
    /\ pc = "capture"
    /\ io = "written"
    /\ resp' = buf
    /\ IF Len(buf) < 2 * cap.width * cap.height
       THEN /\ cap' = cap
            /\ Jump(Throw("ValueError", None))
       ELSE LET at == Positions(cap.width, cap.height)
                vs == {getpixel(buf, cap.width, q[1], q[2]) : q \in at}
                minv == SetMin(vs \cup {MinvStart})
                maxv == SetMax(vs \cup {0})
                diff == maxv - minv
            IN  IF diff = 0
                THEN /\ cap' = [cap EXCEPT !.img = buf, !.minv = minv,
                                           !.maxv = maxv,
                                           !.img_8b = [q \in at |-> 0]]
                     /\ Jump(Throw("ZeroDivisionError", None))
                ELSE /\ cap' = [cap EXCEPT
                            !.img = buf, !.minv = minv, !.maxv = maxv,
                            !.img_8b = [q \in at |->
                                pixel8(getpixel(buf, cap.width, q[1], q[2]),
                                       minv, diff)],
                            !.saved = TRUE]
                     /\ Jump(Done(finger_id))
    /\ UNCHANGED <<args, track, error, new_finger_id, attempts_done, ret,
                   frame, warnings, hist>>

\* The image read, of the size asked for.
Capture ==
    /\ pc = "capture"
    /\ io = "written"
    /\ \E buf \in Buffers(cap.width, cap.height) : CaptureRead(buf)

\* ------------------------------------------------------------ specification

Next ==
    \/ Main
    \/ BulkWrite
    \/ BulkWriteFails
    \/ BulkReadFails
    \/ Abort
    \/ AbortFails
    \/ \E r \in Answers("verify") : VerifyRead(r)
    \/ \E r \in Answers("enrolled_num") : EnrolledNumRead(r)
    \/ \E r \in Answers("verify") : PreCheckRead(r)
    \/ \E r \in Answers("enroll") : SampleRead(r)
    \/ \E r \in Answers("after_enroll") : AfterEnrollRead(r)
    \/ \E r \in Answers("commit") : CommitRead(r)
    \/ \E r \in Answers("finger_info") : FingerInfoRead(r)
    \/ \E r \in Answers("delete") : DeleteRead(r)
    \/ \E r \in Answers("fw_ver") : FwVerRead(r)
    \/ \E r \in Answers("enrolled_num") : EnrolledCountRead(r)
    \/ Reset
    \/ ResetFails
    \/ RawWrite
    \/ \E r \in RawAnswers : RawRead(r)
    \/ \E r \in Answers("sensor_size") : SensorSizeRead(r)
    \/ CaptureWrite
    \/ Capture

Spec == Init /\ [][Next]_vars

\* Runs that keep no unbounded counter, so that the loops of the program
\* are cycles.  The program takes its next step whenever it has one (every
\* transfer returns or times out); the device eventually answers the
\* pre-check verify with 0xfd, and a sample with status 0 or 0xdd.
LiveInit == Start(FALSE)

DeviceProceeds == PreCheckRead(<<64, NotEnrolled>>)

DeviceSamples == SampleRead(<<64, 0>>) \/ SampleRead(<<64, MaxFingers>>)

LiveSpec ==
    /\ LiveInit
    /\ [][Next]_vars
    /\ WF_vars(Next)
    /\ SF_vars(DeviceProceeds)
    /\ SF_vars(DeviceSamples)

\* The status interpreter alone: get_error applied to byte 1 of an answer,
\* for every byte.
ErrInit ==
    /\ args = Args("get_error", 0, <<>>)
    /\ track = TRUE
    /\ pc = "get_error"
    /\ io = "idle"
    /\ stack = <<>>
    /\ payload = <<>>
    /\ resp \in {<<64, b>> : b \in 0..255}
    /\ error = None
    /\ new_finger_id = -1
    /\ attempts_done = 0
    /\ finger_id = -1
    /\ ret = -1
    /\ exc = NoExc
    /\ frame = [cmd |-> "none", ep |-> 0, bytes |-> <<>>]
    /\ warnings = {}
    /\ cap = cap0
    /\ hist = hist0

GetError ==
    /\ pc = "get_error"
    /\ error' = get_error(resp[2])
    /\ pc' = "done"
    /\ UNCHANGED <<cap, args, track, io, stack, payload, resp, new_finger_id,
                   attempts_done, finger_id, ret, exc, frame, warnings, hist>>

ErrSpec == ErrInit /\ [][GetError]_vars

\* ------------------------------------------------------------------- claims

\* The status byte has an error meaning: its high nibble is not zero.
HasErrorMeaning(b) == (b \div 16) % 16 # 0

\* The last frame written was command `name` and its answer has been read:
\* resp is that answer.
Answered(name) ==
    /\ frame.cmd = name
    /\ io = "idle"
    /\ hist.answers[name] = hist.sent[name]
    /\ Len(resp) >= 2

\* C1: for every status byte b, get_error(b) is None exactly when the high
\* nibble of b is zero; otherwise it is the text of the ERRORS table for the
\* eight codes of the table and the Unknown error text for every other b.
C1_GetError ==
    (args.cmd = "get_error" /\ pc = "done") =>
        LET b == resp[2] IN
        /\ (error = None) <=> (b \div 16 = 0)
        /\ (error # None /\ b \in {65, 66, 67, 68, 251, 253, 254, 221})
                => error = <<ERRORS[b]>>
        /\ (error # None /\ b \notin {65, 66, 67, 68, 251, 253, 254, 221})
                => error = <<"Unknown error", b>>
        /\ b = 68 => error = <<"Move slightly to the left">>
        /\ b = 221 => error = <<"Maximum number of enrolled fingers reached">>

C1_Witness ==
    /\ args.cmd = "get_error"
    /\ pc = "done"
    /\ resp[2] = 253
    /\ error = <<"Finger not enrolled">>

\* C2: verify() called by main writes one verify command per answer, sends
\* verify again after every answer whose status has an error meaning, and
\* returns at the first answer without one, returning byte 1 of it.
C2_VerifyLoop ==
    args.cmd = "verify" =>
        LET s == hist.sent["verify"]
            a == hist.answers["verify"] IN
        /\ (pc = "verify" /\ io = "idle") =>
                /\ s = a
                /\ hist.retries = a
                /\ a > 0 => HasErrorMeaning(resp[2])
        /\ (pc = "verify" /\ io = "written") => (s = a + 1 /\ hist.retries = a)
        /\ (pc = "done" /\ exc = NoExc) =>
                /\ s = a
                /\ a >= 1
                /\ hist.retries = a - 1
                /\ ~HasErrorMeaning(resp[2])
                /\ ret = resp[2]

C2_Witness ==
    /\ args.cmd = "verify"
    /\ pc = "done"
    /\ exc = NoExc
    /\ hist.answers["verify"] = 3
    /\ ret = 7

\* C3: in enroll, after_enroll is written once and only after 8 enroll
\* answers with status 0, commit only after that; byte 2 of every enroll
\* payload is the number of status-0 enroll answers so far; an enroll answer
\* with a non-zero status other than 0xdd leaves the count and sends the
\* same payload again.
C3_EnrollSampling ==
    args.cmd = "enroll" =>
        /\ hist.sent["after_enroll"] <= 1
        /\ hist.sent["commit"] <= 1
        /\ hist.sent["after_enroll"] = 1 => hist.ok = 8
        /\ hist.sent["commit"] = 1 => (hist.ok = 8 /\ hist.sent["after_enroll"] = 1)
        /\ (pc = "sample" /\ io = "written") =>
                frame.bytes = <<64, 255, 1, new_finger_id, 8, hist.ok, 0>>
        /\ (Answered("enroll") /\ exc = NoExc /\ resp[2] \notin {0, 221}) =>
                /\ pc = "sample"
                /\ attempts_done = hist.ok
                /\ payload = <<new_finger_id, 8, hist.ok, 0>>

C3_Witness ==
    /\ args.cmd = "enroll"
    /\ pc = "done"
    /\ exc = NoExc
    /\ frame.cmd = "commit"
    /\ hist.ok = 8
    /\ hist.sent["enroll"] = 10

\* C4: an enroll answer with status 0xdd ends enroll at once, whatever the
\* number of samples taken: no enroll, after_enroll or commit follows.
C4_MaxFingersAborts ==
    (args.cmd = "enroll" /\ Answered("enroll") /\ resp[2] = 221) =>
        /\ pc = "done"
        /\ exc = NoExc
        /\ hist.sent["after_enroll"] = 0
        /\ hist.sent["commit"] = 0

C4_Witness ==
    /\ args.cmd = "enroll"
    /\ Answered("enroll")
    /\ resp[2] = 221
    /\ pc = "done"
    /\ hist.ok = 3

\* C5: when the device eventually answers the pre-check with 0xfd and each
\* sample with status 0 or 0xdd, every run of enroll finishes, and no run
\* takes a ninth successful sample.
C5_EnrollTerminates ==
    /\ [](hist.ok <= 8)
    /\ (args.cmd = "enroll") ~> (pc = "done")

C5_Witness ==
    /\ args.cmd = "enroll"
    /\ ~track
    /\ pc = "done"
    /\ exc = NoExc
    /\ frame.cmd = "commit"
    /\ hist.ok = 8

\* C6: the payload enroll passes to commit is exactly 69 bytes for user
\* data of every length.
C6_CommitPayload69 ==
    (args.cmd = "enroll" /\ pc = "commit") => Len(payload) = 69

\* C7: in get_finger_info every answer of an angry sensor is followed by
\* one complete verify round before finger_info is sent again; it is never
\* raised as a failure and never returned as the record.
C7_AngryRecovery ==
    args.cmd \in {"finger_info", "finger_info_all", "delete", "delete_all"} =>
        /\ hist.rounds <= hist.angry
        /\ hist.angry <= hist.rounds + 1
        /\ pc = "verify" => hist.angry = hist.rounds + 1
        /\ (pc # "verify" /\ exc.type \in {"none", "IOError"}) =>
                hist.angry = hist.rounds
        /\ (pc \in {"done", "delete"} /\ exc = NoExc /\ Answered("finger_info")) =>
                resp[2] # 255

C7_Witness ==
    /\ args.cmd = "finger_info"
    /\ pc = "done"
    /\ exc = NoExc
    /\ hist.angry = 1
    /\ hist.rounds = 1
    /\ hist.sent["finger_info"] = 2
    /\ hist.sent["verify"] = 1
    /\ Len(resp) = 64

\* C8 as stated: delete_by_id on a finger whose finger_info answer has
\* byte 1 = 0xfd fails with 'Finger not enrolled' and sends no delete.
C8_AnyNotEnrolledFails ==
    (/\ args.cmd = "delete"
     /\ Answered("finger_info")
     /\ hist.sent["delete"] = 0
     /\ pc # "done"
     /\ resp[2] = 253) =>
        /\ pc = "except"
        /\ exc = Exc("IOError", <<"Finger not enrolled">>)

\* C8 amended: delete_by_id on a finger whose finger_info answer is the
\* two-byte answer with byte 1 = 0xfd fails with 'Finger not enrolled', and
\* a delete payload is only built from an answer longer than two bytes.
C8_ShortNotEnrolledFails ==
    args.cmd = "delete" =>
        /\ (/\ Answered("finger_info")
            /\ hist.sent["delete"] = 0
            /\ pc # "done"
            /\ Len(resp) = 2
            /\ resp[2] = 253) =>
                /\ pc = "except"
                /\ exc = Exc("IOError", <<"Finger not enrolled">>)
        /\ exc = Exc("IOError", <<"Finger not enrolled">>) =>
                hist.sent["delete"] = hist.answers["delete"]
        /\ (pc = "delete" /\ io = "idle") => Len(resp) > 2

C8_Witness ==
    /\ args.cmd = "delete"
    /\ Answered("finger_info")
    /\ resp = <<64, 253>>
    /\ pc = "except"
    /\ exc = Exc("IOError", <<"Finger not enrolled">>)
    /\ hist.sent["delete"] = 0

C10_EmptySweep ==
    (args.cmd = "delete_all" /\ hist.empty) =>
        /\ hist.sent["delete"] = 0
        /\ hist.sent["verify"] = 0
        /\ hist.sent["finger_info"] <= 10
        /\ (pc = "done" /\ exc = NoExc) => hist.sent["finger_info"] = 10

C10_Witness ==
    /\ args.cmd = "delete_all"
    /\ hist.empty
    /\ pc = "done"
    /\ exc = NoExc
    /\ hist.answers["finger_info"] = 10

\* C11 as stated: whenever a step of the workflow fails, the abort opcode
\* is written to endpoint 1 exactly once and the same failure is then
\* propagated.
C11_AbortThenSameFailure ==
    [][pc = "except" =>
        /\ frame' = [cmd |-> "abort", ep |-> 1, bytes |-> <<64, 255, 2>>]
        /\ hist'.sent["abort"] = hist.sent["abort"] + 1
        /\ exc' = exc
        /\ pc' = "done"]_vars

\* C11 amended: every failure of a step reaches the except clause of main,
\* which attempts the abort write to endpoint 1 exactly once: when the
\* write succeeds the same failure propagates, when the write itself raises
\* nothing is written and that transport error propagates.  A workflow that
\* completes without failure writes no abort.
C11_AbortAttemptedOnce ==
    /\ [](/\ exc # NoExc => pc \in {"except", "done"}
          /\ pc = "except" => (exc # NoExc /\ hist.sent["abort"] = 0)
          /\ (pc = "done" /\ exc = NoExc) => hist.sent["abort"] = 0
          /\ hist.sent["abort"] <= 1
          /\ hist.sent["abort"] = 1 =>
                /\ pc = "done"
                /\ exc # NoExc
                /\ frame = [cmd |-> "abort", ep |-> 1, bytes |-> <<64, 255, 2>>])
    /\ [][pc = "except" =>
            /\ pc' = "done"
            /\ \/ /\ frame' = [cmd |-> "abort", ep |-> 1, bytes |-> <<64, 255, 2>>]
                  /\ hist'.sent["abort"] = hist.sent["abort"] + 1
                  /\ exc' = exc
               \/ /\ frame' = frame
                  /\ hist' = hist
                  /\ exc' = Exc("USBError", None)]_vars

C11_Witness ==
    /\ args.cmd = "finger_info"
    /\ pc = "done"
    /\ exc = Exc("IOError", <<"Finger not enrolled">>)
    /\ frame = [cmd |-> "abort", ep |-> 1, bytes |-> <<64, 255, 2>>]
    /\ hist.sent["abort"] = 1

\* a / b rounded to the nearest integer, for a >= 0 and b > 0
Rounded(a, b) == (2 * a + b) \div (2 * b)

Clamp(x) == IF x < 0 THEN 0 ELSE IF x > 255 THEN 255 ELSE x

\* C12: every pixel of the image capture saves is
\* round((v - min) * 256 / (max - min)) clamped to 0..255 for its sample v,
\* and so lies in 0..255, the pixel of the maximal sample included.
C12_RoundedClamped ==
    (args.cmd = "capture" /\ cap.saved) =>
        \A q \in DOMAIN cap.img_8b :
            LET v == getpixel(cap.img, cap.width, q[1], q[2]) IN
            /\ cap.img_8b[q] = Clamp(Rounded((v - cap.minv) * 256,
                                             cap.maxv - cap.minv))
            /\ cap.img_8b[q] \in 0..255

\* C13: when all samples of the captured image are equal, capture fails
\* with a DegenerateCapture error and saves no image.
C13_DegenerateGuarded ==
    (/\ args.cmd = "capture"
     /\ cap.img # <<>>
     /\ cap.maxv = cap.minv) =>
        /\ exc.type = "DegenerateCapture"
        /\ ~cap.saved

\* C14: every call of command() writes the opcode followed by the payload
\* once to the command's output endpoint, also when the frame has not the
\* table's length, then reads once, up to the table's answer length, from
\* the command's input endpoint, and returns the bytes read unchanged, also
\* when they are fewer.
C14_OneWriteOneRead ==
    /\ \A c \in CommandNames \ {"abort"} :
            hist.sent[c] - hist.answers[c] \in {0, 1}
    /\ (pc \in Sites /\ io = "idle") =>
            hist.sent[CmdAt(pc)] = hist.answers[CmdAt(pc)]
    /\ (pc \in Sites /\ io = "written") =>
            /\ frame = [cmd |-> CmdAt(pc),
                        ep |-> COMMANDS[CmdAt(pc)].ep_out,
                        bytes |-> COMMANDS[CmdAt(pc)].command \o payload]
            /\ hist.sent[CmdAt(pc)] = hist.answers[CmdAt(pc)] + 1
    /\ (/\ frame.cmd \in CommandNames \ {"abort"}
        /\ io = "idle"
        /\ hist.answers[frame.cmd] = hist.sent[frame.cmd]) =>
            /\ hist.read = [ep |-> COMMANDS[frame.cmd].ep_in,
                            n |-> COMMANDS[frame.cmd].in_len,
                            bytes |-> resp]
            /\ Len(resp) <= COMMANDS[frame.cmd].in_len

C14_Witness ==
    /\ args.cmd = "enroll"
    /\ frame.cmd = "commit"
    /\ frame.ep = 1
    /\ Len(frame.bytes) = 73
    /\ <<"out", "commit">> \in warnings
    /\ <<"in", "after_enroll">> \in warnings
    /\ Answered("commit")
    /\ hist.read = [ep |-> 3, n |-> 2, bytes |-> <<64, 0>>]

\* C15: enroll writes no enroll command before the pre-check has read a
\* verify answer with status 0xfd; after a pre-check answer with any other
\* status, with or without an error meaning, verify is the next command and
\* no enroll command has been written.
C15_EnrollAfterNotEnrolled ==
    args.cmd = "enroll" =>
        /\ pc \in {"enrolled_num", "precheck"} => hist.sent["enroll"] = 0
        /\ (Answered("verify") /\ exc = NoExc /\ resp[2] # 253) =>
                /\ pc = "precheck"
                /\ payload = <<>>
                /\ hist.sent["enroll"] = 0
        /\ (Answered("verify") /\ exc = NoExc /\ resp[2] = 253) =>
                /\ pc = "sample"
                /\ hist.sent["enroll"] = 0
        /\ (pc = "sample" /\ hist.answers["enroll"] = 0) =>
                /\ resp = <<64, 253>>
                /\ hist.answers["verify"] = hist.sent["verify"]
        /\ hist.sent["enroll"] > 0 => hist.answers["verify"] > 0

C15_Witness ==
    /\ args.cmd = "enroll"
    /\ pc = "sample"
    /\ io = "written"
    /\ hist.sent["enroll"] = 1
    /\ hist.answers["verify"] = 3
    /\ resp = <<64, 253>>

\* C16: when the enrolled_num answer of enroll has a status with an error
\* meaning, enroll returns and no other command is written; otherwise the
\* finger id in every enroll payload is byte 1 of that answer and the
\* marker byte of the commit payload is 0xf0 | (that byte + 5).
C16_SlotFromCount ==
    args.cmd = "enroll" =>
        /\ (Answered("enrolled_num") /\ exc = NoExc /\ HasErrorMeaning(resp[2])) =>
                pc = "done"
        /\ (hist.enrolled >= 0 /\ HasErrorMeaning(hist.enrolled)) =>
                \A c \in CommandNames \ {"enrolled_num"} : hist.sent[c] = 0
        /\ (\E c \in CommandNames \ {"enrolled_num", "abort"} : hist.sent[c] > 0) =>
                hist.enrolled \in 0..15
        /\ frame.cmd = "enroll" => frame.bytes[4] = hist.enrolled
        /\ frame.cmd = "commit" =>
                frame.bytes[4] = 240 + ((hist.enrolled + 5) % 16)

C16_Witness ==
    /\ args.cmd = "enroll"
    /\ pc = "done"
    /\ exc = NoExc
    /\ hist.enrolled = 7
    /\ hist.sent["enroll"] = 8
    /\ frame.cmd = "commit"
    /\ frame.bytes[4] = 252

\* C17 as stated: the value verify() returns and the slot id enroll uses lie
\* in 0..9 for every answer the code takes as free of error.
C17_IdsInSlotRange ==
    /\ ret \in {-1} \cup 0..9
    /\ new_finger_id \in {-1} \cup 0..9
    /\ (args.cmd = "enroll" /\ frame.cmd = "enroll") => frame.bytes[4] \in 0..9

\* C17 amended: the value verify() returns and the slot id enroll uses are
\* bytes with a zero high nibble, 0..15, for every answer the code takes as
\* free of error.
C17_IdsInLowNibble ==
    /\ ret \in {-1} \cup 0..15
    /\ new_finger_id \in {-1} \cup 0..15
    /\ (args.cmd = "verify" /\ pc = "done" /\ exc = NoExc) => ret \in 0..15
    /\ (args.cmd = "enroll" /\ frame.cmd = "enroll") => frame.bytes[4] \in 0..15

C17_Witness ==
    /\ args.cmd = "verify"
    /\ pc = "done"
    /\ exc = NoExc
    /\ resp = <<64, 15>>
    /\ ret = 15

\* C18: one delete_by_id writes at most one delete command; after a delete
\* answer with status 0 the record is fetched again with finger_info, after
\* one with another status no further command is written for that finger.
\* In delete_all the same holds slot by slot.
C18_DeleteOnce ==
    /\ args.cmd = "delete" =>
        /\ hist.sent["delete"] <= 1
        /\ (Answered("delete") /\ exc = NoExc /\ resp[2] # 0) => pc = "done"
        /\ (Answered("delete") /\ exc = NoExc /\ resp[2] = 0) =>
                /\ pc = "finger_info"
                /\ payload = <<args.id>>
        /\ (pc = "done" /\ exc = NoExc) =>
                /\ hist.sent["delete"] = 1
                /\ \/ frame.cmd = "delete" /\ resp[2] # 0
                   \/ /\ frame.cmd = "finger_info"
                      /\ hist.sent["finger_info"] >= 2
    /\ args.cmd = "delete_all" =>
        /\ hist.sent["delete"] <= finger_id + 1
        /\ (Answered("delete") /\ exc = NoExc /\ resp[2] # 0) =>
                \/ pc = "done"
                \/ pc = "finger_info" /\ Head(stack) = "main.delete_all.info"
        /\ (Answered("delete") /\ exc = NoExc /\ resp[2] = 0) =>
                /\ pc = "finger_info"
                /\ Head(stack) = "delete.info"
                /\ payload = <<finger_id>>

C18_Witness ==
    /\ args.cmd = "delete"
    /\ pc = "done"
    /\ exc = NoExc
    /\ error = None
    /\ hist.sent["delete"] = 1
    /\ frame.cmd = "finger_info"
    /\ hist.sent["finger_info"] = 2

\* C19 as stated: whenever a finger_info answer has exactly two bytes,
\* get_finger_info fails with the interpreted status of byte 1 and sends no
\* further command.
C19_ShortFormAlwaysFails ==
    (/\ Answered("finger_info")
     /\ Len(resp) = 2
     /\ pc # "done"
     /\ exc.type \in {"none", "IOError"}) =>
        /\ pc = "except"
        /\ exc.type = "IOError"

\* C19 amended: a finger_info answer of exactly two bytes whose byte 1 is
\* not 0xff makes get_finger_info fail with the interpreted status of byte
\* 1, and no further command of the workflow follows; an answer with byte
\* 1 = 0xff, two bytes long or longer, starts the verify round instead; an
\* answer longer than two bytes whose byte 1 is not 0xff is returned as it
\* was read.
C19_ShortFormFails ==
    /\ (/\ Answered("finger_info")
        /\ Len(resp) = 2
        /\ resp[2] # 255
        /\ pc # "done") =>
            /\ pc = "except"
            /\ stack = <<>>
            /\ exc.type = "IOError"
            /\ resp[2] = 253 => exc.arg = <<"Finger not enrolled">>
    /\ (Answered("finger_info") /\ resp[2] = 255 /\ exc = NoExc) =>
            pc = "verify"
    /\ (Answered("finger_info") /\ Len(resp) > 2 /\ resp[2] # 255) =>
            /\ exc.type # "IOError"
            /\ hist.read.bytes = resp
            /\ args.cmd = "finger_info" => (pc = "done" /\ exc = NoExc)
            /\ (pc = "delete" /\ args.cmd = "delete") =>
                    /\ payload[1] = 240 + args.id + 5
                    /\ \A i \in 3..Len(resp) : payload[i - 1] = resp[i]
    /\ exc.type = "IOError" =>
            /\ frame.cmd \in {"finger_info", "abort"}
            /\ Len(resp) = 2

C19_Witness ==
    /\ args.cmd = "finger_info"
    /\ Answered("finger_info")
    /\ resp = <<64, 253>>
    /\ pc = "except"
    /\ exc = Exc("IOError", <<"Finger not enrolled">>)

\* C20: every frame a workflow builds has the length the COMMANDS table
\* gives for its command, so command() never warns of a wrong command
\* size: 3 bytes for verify, enrolled_num and after_enroll, 4 for
\* finger_info, 7 for enroll, 72 for delete and for commit.
C20_FrameLengths ==
    /\ frame.cmd \in CommandNames =>
            Len(frame.bytes) = COMMANDS[frame.cmd].out_len
    /\ \A c \in CommandNames : <<"out", c>> \notin warnings
    /\ frame.cmd \in {"verify", "enrolled_num", "after_enroll"} =>
            Len(frame.bytes) = 3
    /\ frame.cmd = "finger_info" => Len(frame.bytes) = 4
    /\ frame.cmd = "enroll" => Len(frame.bytes) = 7
    /\ frame.cmd \in {"delete", "commit"} => Len(frame.bytes) = 72

====
